---- MODULE Spec2Model ----
(***************************************************************************)
(* A model of package sexa (github.com/soniakeys/sexagesimal): the custom  *)
(* formatters of Angle, HourAngle, RA and Time (state.writeFormatted and   *)
(* the methods it dispatches to) and the unit/decimal-separator string     *)
(* functions CombineUnit, InsertUnit and StripUnit.                        *)
(*                                                                         *)
(* Representation.                                                         *)
(*  - A Go string is a sequence of runes; a rune is a short TLA+ string    *)
(*    ("0".."9", "-", "+", " ", "*", ".", "deg", "mark", ...).  Every      *)
(*    string the model handles is valid UTF-8, for which byte offsets and  *)
(*    rune offsets select the same substrings.                             *)
(*  - An int64 that the code keeps non-negative is a natural number held   *)
(*    as a little-endian sequence of limbs in base 10^4 without high zero  *)
(*    limbs (TLC's own integers are 32 bits wide, 2^52 does not fit).      *)
(*  - A finite float64 is [neg, m, e] with value (-1)^neg * m * 2^e and    *)
(*    m < 2^53; every float operation computes the exact result and rounds *)
(*    it to 53 bits, ties to even, as IEEE-754 does.  The exponent range   *)
(*    is not modelled: the values of the model stay far from overflow and  *)
(*    underflow.                                                           *)
(***************************************************************************)
EXTENDS Integers, Sequences, FiniteSets, TLC

(***************************************************************************)
(* Natural numbers of arbitrary size.                                      *)
(***************************************************************************)
Base == 10 ^ 4

BZero == <<>>

RECURSIVE BNorm(_)
BNorm(a) ==
    IF a = <<>> THEN a
    ELSE IF a[Len(a)] = 0 THEN BNorm(SubSeq(a, 1, Len(a) - 1)) ELSE a

\* a small TLC integer n >= 0 as a natural number
RECURSIVE BOf(_)
BOf(n) == IF n = 0 THEN <<>> ELSE <<n % Base>> \o BOf(n \div Base)

Limb(a, i) == IF i <= Len(a) THEN a[i] ELSE 0

RECURSIVE BAddFrom(_, _, _, _)
BAddFrom(a, b, i, carry) ==
    IF i > Len(a) /\ i > Len(b)
    THEN IF carry = 0 THEN <<>> ELSE <<carry>>
    ELSE LET s == Limb(a, i) + Limb(b, i) + carry
         IN  <<s % Base>> \o BAddFrom(a, b, i + 1, s \div Base)

BAdd(a, b) == BAddFrom(a, b, 1, 0)

\* a - b for a >= b
RECURSIVE BSubFrom(_, _, _, _)
BSubFrom(a, b, i, borrow) ==
    IF i > Len(a) THEN <<>>
    ELSE LET x == a[i] - Limb(b, i) - borrow
         IN  IF x < 0 THEN <<x + Base>> \o BSubFrom(a, b, i + 1, 1)
             ELSE <<x>> \o BSubFrom(a, b, i + 1, 0)

BSub(a, b) == BNorm(BSubFrom(a, b, 1, 0))

\* a * d for a small factor 0 <= d <= Base
RECURSIVE BMulSmallFrom(_, _, _, _)
BMulSmallFrom(a, d, i, carry) ==
    IF i > Len(a)
    THEN IF carry = 0 THEN <<>> ELSE <<carry>>
    ELSE LET s == a[i] * d + carry
         IN  <<s % Base>> \o BMulSmallFrom(a, d, i + 1, s \div Base)

BMulSmall(a, d) == IF d = 0 \/ a = <<>> THEN <<>> ELSE BMulSmallFrom(a, d, 1, 0)

\* a * Base^k
RECURSIVE BShiftLimbs(_, _)
BShiftLimbs(a, k) ==
    IF a = <<>> \/ k = 0 THEN a ELSE BShiftLimbs(<<0>> \o a, k - 1)

RECURSIVE BMulFrom(_, _, _)
BMulFrom(a, b, j) ==
    IF j > Len(b) THEN <<>>
    ELSE BAdd(BShiftLimbs(BMulSmall(a, b[j]), j - 1), BMulFrom(a, b, j + 1))

BMul(a, b) == IF a = <<>> \/ b = <<>> THEN <<>> ELSE BMulFrom(a, b, 1)

\* -1, 0, 1 as a < b, a = b, a > b
RECURSIVE BCmpFrom(_, _, _)
BCmpFrom(a, b, i) ==
    IF i = 0 THEN 0
    ELSE IF a[i] < b[i] THEN -1
    ELSE IF a[i] > b[i] THEN 1
    ELSE BCmpFrom(a, b, i - 1)

BCmp(a, b) ==
    IF Len(a) < Len(b) THEN -1
    ELSE IF Len(a) > Len(b) THEN 1
    ELSE BCmpFrom(a, b, Len(a))

BLe(a, b) == BCmp(a, b) <= 0
BLt(a, b) == BCmp(a, b) < 0

\* quotient and remainder of a by a small divisor 1 <= d <= Base
RECURSIVE BDivSmallFrom(_, _, _, _)
BDivSmallFrom(a, d, i, rem) ==
    IF i = 0 THEN [q |-> <<>>, r |-> rem]
    ELSE LET cur  == rem * Base + a[i]
             rest == BDivSmallFrom(a, d, i - 1, cur % d)
         IN  [q |-> rest.q \o <<cur \div d>>, r |-> rest.r]

BDivSmall(a, d) ==
    LET x == BDivSmallFrom(a, d, Len(a), 0) IN [q |-> BNorm(x.q), r |-> x.r]

\* quotient and remainder of a by Base^k
BDivLimbs(a, k) ==
    IF k >= Len(a) THEN [q |-> <<>>, r |-> a]
    ELSE [q |-> SubSeq(a, k + 1, Len(a)), r |-> BNorm(SubSeq(a, 1, k))]

BIsOdd(a) == a # <<>> /\ a[1] % 2 = 1

\* 2^k for a small k, and 10^k for k < 4
RECURSIVE SmallPow(_, _)
SmallPow(b, k) == IF k = 0 THEN 1 ELSE b * SmallPow(b, k - 1)

\* a * 2^k
RECURSIVE BShl(_, _)
BShl(a, k) ==
    IF k = 0 \/ a = <<>> THEN a
    ELSE IF k >= 13 THEN BShl(BMulSmall(a, 8192), k - 13)
    ELSE BMulSmall(a, SmallPow(2, k))

\* floor(a / 2^k) and whether any of the k bits dropped was set
RECURSIVE BShr(_, _, _)
BShr(a, k, sticky) ==
    IF k = 0 THEN [q |-> a, sticky |-> sticky]
    ELSE LET step == IF k >= 13 THEN 13 ELSE k
             x    == BDivSmall(a, SmallPow(2, step))
         IN  BShr(x.q, k - step, sticky \/ x.r # 0)

\* a * 10^k
BMulPow10(a, k) == BMulSmall(BShiftLimbs(a, k \div 4), SmallPow(10, k % 4))

\* quotient and remainder of a by 10^k
BDivPow10(a, k) ==
    LET hi == BDivLimbs(a, k \div 4)
        lo == BDivSmall(hi.q, SmallPow(10, k % 4))
    IN  [q |-> lo.q,
         r |-> BAdd(BShiftLimbs(BOf(lo.r), k \div 4), hi.r)]

(***************************************************************************)
(* float64.  A finite non-negative float64 is [m, e] with value m * 2^e;   *)
(* FRound rounds an exact value n * 2^e to the nearest float64, ties to    *)
(* even (the rounding every float64 operation of the Go code performs).    *)
(***************************************************************************)
\* 2^k, tabulated
Pow2Table == [k \in 0..255 |-> BShl(<<1>>, k)]
Pow2(k) == Pow2Table[k]

\* the least j >= 1 with n < 2^(53+j), for 2^53 <= n < 2^66
RECURSIVE DropFrom(_, _)
DropFrom(n, j) == IF BLt(n, Pow2(53 + j)) THEN j ELSE DropFrom(n, j + 1)

\* n * 2^e for n >= 2^53 with the low bits shifted out 13 at a time until
\* n < 2^66; sticky says whether a bit shifted out was set
RECURSIVE Coarse(_, _, _)
Coarse(n, e, sticky) ==
    IF BLt(n, Pow2(66)) THEN [n |-> n, e |-> e, sticky |-> sticky]
    ELSE LET x == BShr(n, 13, sticky) IN Coarse(x.q, e + 13, x.sticky)

\* a float64 holds 53 significant bits: the bits below them are dropped and
\* the result rounded to nearest, ties to even
FRound(n, e) ==
    LET Nearest(a, h, e2) ==
            [m |-> IF BIsOdd(a.q) /\ (a.sticky \/ BIsOdd(h)) THEN BAdd(h, <<1>>) ELSE h,
             e |-> e2]
        Guarded(a, e2) == Nearest(a, BDivSmall(a.q, 2).q, e2)
        Dropped(c, drop) == Guarded(BShr(c.n, drop - 1, c.sticky), c.e + drop)
        Rounded(c) == Dropped(c, DropFrom(c.n, 1))
    IN  IF n = <<>> THEN [m |-> <<>>, e |-> 0]
        ELSE IF BLt(n, Pow2(53)) THEN [m |-> n, e |-> e]
        ELSE Rounded(Coarse(n, e, FALSE))

\* the float64 product x * y of two floats
FMul(x, y) == FRound(BMul(x.m, y.m), x.e + y.e)

\* the exact value n * 2^e + 1/2, rounded to float64
AddHalf(n, e) ==
    FRound(IF e >= 0 THEN BAdd(BShl(n, e + 1), <<1>>) ELSE BAdd(n, Pow2(-e - 1)),
           IF e >= 0 THEN -1 ELSE e)

\* x <= 2^k, for a float x and k >= 0
FLePow2(x, k) ==
    IF x.e >= 0 THEN BLe(BShl(x.m, x.e), Pow2(k))
    ELSE BLe(x.m, Pow2(k - x.e))

\* int64(x) for a float 0 <= x < 2^63: truncation
FFloor(x) ==
    IF x.e >= 0 THEN BShl(x.m, x.e) ELSE BShr(x.m, -x.e, FALSE).q

\* float64(n) for an integer 0 <= n < 2^53 (exact)
FOfInt(n) == [m |-> BOf(n), e |-> 0]

(***************************************************************************)
(* Strings and package fmt.                                                *)
(***************************************************************************)
DigitRune == <<"0", "1", "2", "3", "4", "5", "6", "7", "8", "9">>

RECURSIVE Repeat(_, _)
Repeat(r, n) == IF n <= 0 THEN <<>> ELSE <<r>> \o Repeat(r, n - 1)

\* the four decimal digits of one limb
LimbDigits(x) ==
    << DigitRune[(x \div 1000) + 1], DigitRune[((x \div 100) % 10) + 1],
       DigitRune[((x \div 10) % 10) + 1], DigitRune[(x % 10) + 1] >>

RECURSIVE StripZeros(_)
StripZeros(d) ==
    IF Len(d) > 1 /\ d[1] = "0" THEN StripZeros(Tail(d)) ELSE d

RECURSIVE AllLimbDigits(_, _)
AllLimbDigits(a, i) ==
    IF i = 0 THEN <<>> ELSE LimbDigits(a[i]) \o AllLimbDigits(a, i - 1)

\* strconv: the decimal digits of a natural number
Itoa(a) == IF a = <<>> THEN <<"0">> ELSE StripZeros(AllLimbDigits(a, Len(a)))

\* fmt's %d with the flags '+', ' ' and '0' and a width (fmt.fmtInteger):
\* with '0' the digits are zero-padded to the width less the sign, otherwise
\* sign and digits are padded with spaces on the left.  wid = 0: no width.
FmtInt(plus, space, zero, wid, neg, mag) ==
    LET digits == Itoa(mag)
        sign   == IF neg THEN <<"-">>
                  ELSE IF plus THEN <<"+">>
                  ELSE IF space THEN <<" ">> ELSE <<>>
    IN  IF zero /\ wid > 0
        THEN sign \o Repeat("0", wid - Len(sign) - Len(digits)) \o digits
        ELSE Repeat(" ", wid - Len(sign) - Len(digits)) \o sign \o digits

\* Go's d[i:j] and d[i:] (offsets count from 0)
Slice(d, i, j) == SubSeq(d, i + 1, j)
SliceFrom(d, i) == SubSeq(d, i + 1, Len(d))

\* strings.HasPrefix
HasPrefix(d, p) == Len(p) <= Len(d) /\ SubSeq(d, 1, Len(p)) = p

\* strings.Index: the offset of the first occurrence of sep in d, or -1
RECURSIVE IndexFrom(_, _, _)
IndexFrom(d, sep, i) ==
    IF i + Len(sep) > Len(d) THEN -1
    ELSE IF Slice(d, i, i + Len(sep)) = sep THEN i
    ELSE IndexFrom(d, sep, i + 1)

Index(d, sep) == IndexFrom(d, sep, 0)

\* strings.IndexRune(d, r) >= 0
ContainsRune(d, r) == \E i \in 1..Len(d) : d[i] = r

(***************************************************************************)
(* Symbols.                                                                *)
(***************************************************************************)
\* the rune 0, the zero value of Symbols.DecCombine
NUL == "NUL"

\* the Symbols value the package variable Default points to
DefaultSymbols ==
    [DMSUnits   |-> [HrDeg |-> <<"deg">>, Min |-> <<"min">>, Sec |-> <<"sec">>],
     HMSUnits   |-> [HrDeg |-> <<"h">>, Min |-> <<"m">>, Sec |-> <<"s">>],
     DecSep     |-> <<".">>,
     DecCombine |-> "mark"]

\* CombineUnit that leaves the separator after the mark
CombineUnitKeepSep(sym, d, unit) ==
    IF sym.DecSep = <<>> \/ sym.DecCombine = NUL
    THEN d \o unit
    ELSE LET i == Index(d, sym.DecSep)
         IN  IF i < 0 THEN d \o unit
             ELSE Slice(d, 0, i) \o unit \o <<sym.DecCombine>> \o SliceFrom(d, i)

\* Symbols.CombineUnit
CombineUnit(sym, d, unit) ==
    IF sym.DecSep = <<>> \/ sym.DecCombine = NUL
    THEN d \o unit
    ELSE LET i == Index(d, sym.DecSep)
         IN  IF i < 0 THEN d \o unit
             ELSE Slice(d, 0, i) \o unit \o <<sym.DecCombine>>
                    \o SliceFrom(d, i + Len(sym.DecSep))

\* InsertUnit that adds the unit just after the separator
InsertUnitAfterSep(sym, d, unit) ==
    IF sym.DecSep = <<>>
    THEN d \o unit
    ELSE LET i == Index(d, sym.DecSep)
         IN  IF i < 0 THEN d \o unit
             ELSE Slice(d, 0, i + Len(sym.DecSep)) \o unit
                    \o SliceFrom(d, i + Len(sym.DecSep))

\* Symbols.InsertUnit
InsertUnit(sym, d, unit) ==
    IF sym.DecSep = <<>>
    THEN d \o unit
    ELSE LET i == Index(d, sym.DecSep)
         IN  IF i < 0 THEN d \o unit
             ELSE Slice(d, 0, i) \o unit \o SliceFrom(d, i)

\* StripUnit without the test that DecSep is not empty
StripUnitAnySep(sym, d, unit) ==
    LET xu == Index(d, unit)
        xd == xu + Len(unit)
    IN  IF xu < 0 THEN [stripped |-> d, ok |-> FALSE]
        ELSE IF xd = Len(d) THEN [stripped |-> Slice(d, 0, xu), ok |-> TRUE]
        ELSE IF HasPrefix(SliceFrom(d, xd), sym.DecSep)
        THEN [stripped |-> Slice(d, 0, xu) \o SliceFrom(d, xd), ok |-> TRUE]
        ELSE IF d[xd + 1] = sym.DecCombine
        THEN [stripped |-> Slice(d, 0, xu) \o sym.DecSep \o SliceFrom(d, xd + 1),
              ok |-> TRUE]
        ELSE [stripped |-> d, ok |-> FALSE]

\* Symbols.StripUnit: [stripped, ok]
StripUnit(sym, d, unit) ==
    LET xu == Index(d, unit)
        xd == xu + Len(unit)
    IN  IF xu < 0 THEN [stripped |-> d, ok |-> FALSE]
        ELSE IF xd = Len(d) THEN [stripped |-> Slice(d, 0, xu), ok |-> TRUE]
        ELSE IF sym.DecSep # <<>> /\ HasPrefix(SliceFrom(d, xd), sym.DecSep)
        THEN [stripped |-> Slice(d, 0, xu) \o SliceFrom(d, xd), ok |-> TRUE]
        ELSE IF d[xd + 1] = sym.DecCombine
        THEN [stripped |-> Slice(d, 0, xu) \o sym.DecSep \o SliceFrom(d, xd + 1),
              ok |-> TRUE]
        ELSE [stripped |-> d, ok |-> FALSE]

(***************************************************************************)
(* The formatter.  s is the state struct: verb, hrDeg, prec, caller, sym   *)
(* (the Symbols value that the pointer s.sym points to), units,            *)
(* and what the embedded fmt.State answers: Flag('+'), Flag(' '),          *)
(* Flag('#'), Flag('0') as plus, space, sharp, zero; Width() as wid, a     *)
(* record [ok, n]; Precision() as precision, a record [ok, n].  s.fma says *)
(* whether the build fuses x*y + z into one rounding, which the Go         *)
(* specification leaves to the implementation.                             *)
(***************************************************************************)
fsAngle == "fsAngle"
fsHourAngle == "fsHourAngle"
fsRA == "fsRA"
fsTime == "fsTime"

ErrLossOfPrecision == "Loss of precision"
ErrDegreeOverflow == "Degrees overflow width"
ErrHourOverflow == "Hours overflow width"
ErrPosInf == "+Inf"
ErrNegInf == "-Inf"
ErrNaN == "NaN"
nil == "nil"

\* the value sig returns for a result that is not fully significant
MinusOne == <<-1>>

\* 1<<52: 52 mantissa bits in float64
SigBits == 52

\* tenf[prec]: 10^prec, exact in float64 for prec <= 15
tenf(prec) == [m |-> BMulPow10(<<1>>, prec), e |-> 0]

\* sig with one more bit
sigWide(x, prec, fma) ==
    LET t == tenf(prec)
        Whole(xs) == IF ~FLePow2(xs, SigBits + 1) THEN MinusOne ELSE FFloor(xs)
        Half(p) == AddHalf(p.m, p.e)
    IN  Whole(Half(IF fma THEN [m |-> BMul(x.m, t.m), e |-> x.e + t.e] ELSE FMul(x, t)))

\* sig without the test
sigNoCheck(x, prec, fma) ==
    LET t == tenf(prec)
        Whole(xs) == FFloor(xs)
        Half(p) == AddHalf(p.m, p.e)
    IN  Whole(Half(IF fma THEN [m |-> BMul(x.m, t.m), e |-> x.e + t.e] ELSE FMul(x, t)))

\* sig: xs := x*tenf[prec] + .5; -1 unless xs <= 1<<52; int64(xs)
sig(x, prec, fma) ==
    LET t == tenf(prec)
        Whole(xs) == IF ~FLePow2(xs, SigBits) THEN MinusOne ELSE FFloor(xs)
        Half(p) == AddHalf(p.m, p.e)
    IN  Whole(Half(IF fma THEN [m |-> BMul(x.m, t.m), e |-> x.e + t.e] ELSE FMul(x, t)))

\* math.Abs(s.hrDeg), and s.hrDeg < 0
AbsHrDeg(s) == [m |-> s.hrDeg.m, e |-> s.hrDeg.e]
IsNegative(s) == s.hrDeg.neg /\ s.hrDeg.m # <<>>

OverflowErr(s) == IF s.caller = fsAngle THEN ErrDegreeOverflow ELSE ErrHourOverflow

\* the decimal separator goes prec places from the right
SplitDec(s, r) ==
    IF s.prec > 0
    THEN LET split == Len(r) - s.prec
         IN  Slice(r, 0, split) \o s.sym.DecSep \o SliceFrom(r, split)
    ELSE r

\* state.decimalHrDeg: [r, err]
decimalHrDeg(s) ==
    LET wf == s.prec + s.wid.n + 1
        WithUnit(r1) ==
            CASE s.verb = "h" -> r1 \o s.units.HrDeg
              [] s.verb = "i" -> CombineUnit(s.sym, r1, s.units.HrDeg)
              [] s.verb = "j" -> InsertUnit(s.sym, r1, s.units.HrDeg)
              [] OTHER -> r1
        Checked(i, r0) ==
            IF i = MinusOne THEN [r |-> <<>>, err |-> ErrLossOfPrecision]
            ELSE IF s.wid.ok /\ Len(r0) > wf THEN [r |-> <<>>, err |-> OverflowErr(s)]
            ELSE [r |-> WithUnit(SplitDec(s, r0)), err |-> nil]
        Signed(i, neg) ==
            Checked(i, IF ~s.wid.ok
                       THEN FmtInt(s.plus, ~s.plus /\ s.space, TRUE, s.prec + 1, neg, i)
                       ELSE FmtInt(s.plus, ~s.plus, s.zero, wf, neg, i))
        \* i = -i; fmt prints no sign for 0
        Scaled(i) == Signed(i, IsNegative(s) /\ i # <<>>)
    IN  Scaled(sig(AbsHrDeg(s), s.prec, s.fma))

\* firstSeg that elides a zero segment under the '#' flag too
firstSegNoSharp(s, x) ==
    LET elided == ~s.wid.ok /\ ~(x # <<>>)
        Signed(r1) ==
            IF IsNegative(s) THEN <<"-">> \o r1
            ELSE IF s.plus THEN <<"+">> \o r1
            ELSE IF s.space \/ s.wid.ok THEN <<" ">> \o r1
            ELSE r1
        Checked(r0) ==
            IF s.wid.ok /\ Len(r0) > s.wid.n
            THEN [r |-> <<>>, elided |-> FALSE, err |-> OverflowErr(s)]
            ELSE [r |-> Signed(IF s.wid.ok THEN r0 \o s.units.HrDeg
                               ELSE IF x # <<>> THEN Itoa(x) \o s.units.HrDeg
                               ELSE <<>>),
                  elided |-> elided, err |-> nil]
    IN  Checked(FmtInt(FALSE, FALSE, s.zero, s.wid.n, FALSE, x))

\* firstSeg that reserves the sign column for the ' ' flag only
firstSegNoSignColumn(s, x) ==
    LET elided == ~s.wid.ok /\ ~(x # <<>> \/ s.sharp)
        Signed(r1) ==
            IF IsNegative(s) THEN <<"-">> \o r1
            ELSE IF s.plus THEN <<"+">> \o r1
            ELSE IF s.space THEN <<" ">> \o r1
            ELSE r1
        Checked(r0) ==
            IF s.wid.ok /\ Len(r0) > s.wid.n
            THEN [r |-> <<>>, elided |-> FALSE, err |-> OverflowErr(s)]
            ELSE [r |-> Signed(IF s.wid.ok THEN r0 \o s.units.HrDeg
                               ELSE IF x # <<>> \/ s.sharp THEN Itoa(x) \o s.units.HrDeg
                               ELSE <<>>),
                  elided |-> elided, err |-> nil]
    IN  Checked(FmtInt(FALSE, FALSE, s.zero, s.wid.n, FALSE, x))

\* firstSeg that takes a segment as wide as the width for an overflow
firstSegTightWidth(s, x) ==
    LET elided == ~s.wid.ok /\ ~(x # <<>> \/ s.sharp)
        Signed(r1) ==
            IF IsNegative(s) THEN <<"-">> \o r1
            ELSE IF s.plus THEN <<"+">> \o r1
            ELSE IF s.space \/ s.wid.ok THEN <<" ">> \o r1
            ELSE r1
        Checked(r0) ==
            IF s.wid.ok /\ Len(r0) >= s.wid.n
            THEN [r |-> <<>>, elided |-> FALSE, err |-> OverflowErr(s)]
            ELSE [r |-> Signed(IF s.wid.ok THEN r0 \o s.units.HrDeg
                               ELSE IF x # <<>> \/ s.sharp THEN Itoa(x) \o s.units.HrDeg
                               ELSE <<>>),
                  elided |-> elided, err |-> nil]
    IN  Checked(FmtInt(FALSE, FALSE, s.zero, s.wid.n, FALSE, x))

\* state.firstSeg: [r, elided, err]
firstSeg(s, x) ==
    LET elided == ~s.wid.ok /\ ~(x # <<>> \/ s.sharp)
        Signed(r1) ==
            IF IsNegative(s) THEN <<"-">> \o r1
            ELSE IF s.plus THEN <<"+">> \o r1
            ELSE IF s.space \/ s.wid.ok THEN <<" ">> \o r1
            ELSE r1
        Checked(r0) ==
            IF s.wid.ok /\ Len(r0) > s.wid.n
            THEN [r |-> <<>>, elided |-> FALSE, err |-> OverflowErr(s)]
            ELSE [r |-> Signed(IF s.wid.ok THEN r0 \o s.units.HrDeg
                               ELSE IF x # <<>> \/ s.sharp THEN Itoa(x) \o s.units.HrDeg
                               ELSE <<>>),
                  elided |-> elided, err |-> nil]
    IN  Checked(FmtInt(FALSE, FALSE, s.zero, s.wid.n, FALSE, x))

\* lastSeg without the space that pads a one-digit segment under a width
lastSegNoPad(s, sec, unit, first) ==
    LET wid == IF s.zero /\ (s.wid.ok \/ ~first) THEN s.prec + 2 ELSE s.prec + 1
        WithUnit(r2) ==
            CASE s.verb \in {"c", "n"} -> CombineUnit(s.sym, r2, unit)
              [] s.verb \in {"d", "o"} -> InsertUnit(s.sym, r2, unit)
              [] OTHER -> r2 \o unit
        Padded(r0) ==
            WithUnit(SplitDec(s, r0))
    IN  Padded(FmtInt(FALSE, FALSE, TRUE, wid, FALSE, sec))

\* lastSeg that does not look at the '0' flag
lastSegNoZero(s, sec, unit, first) ==
    LET wid == s.prec + 1
        WithUnit(r2) ==
            CASE s.verb \in {"c", "n"} -> CombineUnit(s.sym, r2, unit)
              [] s.verb \in {"d", "o"} -> InsertUnit(s.sym, r2, unit)
              [] OTHER -> r2 \o unit
        Padded(r0) ==
            WithUnit(SplitDec(s, IF s.wid.ok /\ Len(r0) < s.prec + 2
                                 THEN <<" ">> \o r0 ELSE r0))
    IN  Padded(FmtInt(FALSE, FALSE, TRUE, wid, FALSE, sec))

\* state.lastSeg
lastSeg(s, sec, unit, first) ==
    LET wid == IF s.zero /\ (s.wid.ok \/ ~first) THEN s.prec + 2 ELSE s.prec + 1
        WithUnit(r2) ==
            CASE s.verb \in {"c", "n"} -> CombineUnit(s.sym, r2, unit)
              [] s.verb \in {"d", "o"} -> InsertUnit(s.sym, r2, unit)
              [] OTHER -> r2 \o unit
        Padded(r0) ==
            WithUnit(SplitDec(s, IF s.wid.ok /\ Len(r0) < s.prec + 2
                                 THEN <<" ">> \o r0 ELSE r0))
    IN  Padded(FmtInt(FALSE, FALSE, TRUE, wid, FALSE, sec))

\* i / p60 for a p60 of 100 * teni[s.prec]
DivP60By100(i, prec) == BDivSmall(BDivPow10(i, prec).q, 100).q

\* i / p60 for p60 := 60 * teni[s.prec]
DivP60(i, prec) == BDivSmall(BDivPow10(i, prec).q, 60).q

\* i % p60 for a p60 of 100 * teni[s.prec]
ModP60By100(i, prec) ==
    LET x == BDivPow10(i, prec)
    IN  BAdd(BMulPow10(BOf(BDivSmall(x.q, 100).r), prec), x.r)

\* i % teni[s.prec] in place of i % p60
ModP60Fraction(i, prec) == BDivPow10(i, prec).r

\* i % p60 for p60 := 60 * teni[s.prec]
ModP60(i, prec) ==
    LET x == BDivPow10(i, prec)
    IN  BAdd(BMulPow10(BOf(BDivSmall(x.q, 60).r), prec), x.r)

\* state.decimalMin: [r, err]
decimalMin(s) ==
    LET Segments(i, fs) ==
            IF i = MinusOne THEN [r |-> <<>>, err |-> ErrLossOfPrecision]
            ELSE IF fs.err # nil THEN [r |-> <<>>, err |-> fs.err]
            ELSE [r |-> fs.r \o lastSeg(s, ModP60(i, s.prec), s.units.Min, fs.elided),
                  err |-> nil]
        Scaled(i) == Segments(i, firstSeg(s, DivP60(i, s.prec)))
    IN  Scaled(sig(FMul(AbsHrDeg(s), FOfInt(60)), s.prec, s.fma))

\* state.decimalSec: [r, err]
decimalSec(s) ==
    LET Middle(min, fs, minEl) ==
            IF s.zero /\ ~fs.elided
            THEN FmtInt(FALSE, FALSE, TRUE, 2, FALSE, min) \o s.units.Min
            ELSE IF s.wid.ok
            THEN FmtInt(FALSE, FALSE, FALSE, 2, FALSE, min) \o s.units.Min
            ELSE IF minEl THEN <<>>
            ELSE Itoa(min) \o s.units.Min
        Segments(i, min, fs, minEl) ==
            IF i = MinusOne THEN [r |-> <<>>, err |-> ErrLossOfPrecision]
            ELSE IF fs.err # nil THEN [r |-> <<>>, err |-> fs.err]
            ELSE [r |-> fs.r \o Middle(min, fs, minEl)
                             \o lastSeg(s, ModP60(i, s.prec), s.units.Sec, minEl),
                  err |-> nil]
        Elision(i, min, fs) ==
            Segments(i, min, fs,
                     ~(s.zero /\ ~fs.elided) /\ ~s.wid.ok /\ fs.elided /\ min = <<>>)
        \* i2 = i / p60: min = i2 % 60, hrDeg = i2 / 60
        Split(i, i2) == Elision(i, BOf(i2.r), firstSeg(s, i2.q))
        Scaled(i) == Split(i, BDivSmall(DivP60(i, s.prec), 60))
    IN  Scaled(sig(FMul(AbsHrDeg(s), FOfInt(3600)), s.prec, s.fma))

\* A *Symbols is the name of a Symbols value: nil, Default (the package
\* variable), or one the caller made.
Default == "Default"

NoUnits == [HrDeg |-> <<>>, Min |-> <<>>, Sec |-> <<>>]

\* sexa.Symbols{}: no units, no separator (Example_width)
NoSepSymbols ==
    [DMSUnits |-> NoUnits, HMSUnits |-> NoUnits, DecSep |-> <<>>, DecCombine |-> NUL]

\* ASCII units of several characters and a decimal comma without a
\* combining mark (ExampleSymbols_FmtAngle, ExampleSymbols_InsertUnit)
AsciiSymbols ==
    [DMSUnits   |-> [HrDeg |-> <<"d", " ">>, Min |-> <<"m", " ">>, Sec |-> <<"s">>],
     HMSUnits   |-> [HrDeg |-> <<"h", "r">>, Min |-> <<":">>, Sec |-> <<>>],
     DecSep     |-> <<",">>,
     DecCombine |-> NUL]

SymbolsAt(ptr) ==
    CASE ptr = Default -> DefaultSymbols
      [] ptr = "noSep" -> NoSepSymbols
      [] ptr = "ascii" -> AsciiSymbols

\* precision above this is a format error (tenf and teni have 16 entries)
MaxPrecision == 15

\* the number of asterisks when the mock result fails too
DefaultWidth == 10

FloatZero == [k |-> "fin", neg |-> FALSE, m |-> <<>>, e |-> 0]

ValidVerbs == {"v", "s", "c", "d", "m", "n", "o", "h", "i", "j"}

\* a verb switch where 'v' falls through to the minutes convention
CallMethodVAsMin(s) ==
    IF s.verb \in {"s", "c", "d"} THEN decimalSec(s)
    ELSE IF s.verb \in {"v", "m", "n", "o"} THEN decimalMin(s)
    ELSE decimalHrDeg(s)

\* the formatting method f picked by the verb
CallMethod(s) ==
    IF s.verb \in {"v", "s", "c", "d"} THEN decimalSec(s)
    ELSE IF s.verb \in {"m", "n", "o"} THEN decimalMin(s)
    ELSE decimalHrDeg(s)

\* a label as wide as the rune count of the mock result
StarWidthRunes(s, mock) == IF mock.err # nil THEN DefaultWidth ELSE Len(mock.r)

\* the width of the valErr label: the rune count of the mock result, less
\* one when it holds the combining mark; DefaultWidth when the mock fails
StarWidth(s, mock) ==
    IF mock.err # nil THEN DefaultWidth
    ELSE IF ContainsRune(mock.r, s.sym.DecCombine) THEN Len(mock.r) - 1
    ELSE Len(mock.r)

\* a valErr label that writes the mock result itself
ValErrDigits(s, err) ==
    LET mock == CallMethod([s EXCEPT !.hrDeg = FloatZero])
    IN  [out |-> IF mock.err = nil THEN mock.r ELSE Repeat("*", DefaultWidth),
         err |-> err, kind |-> "valerr"]

\* the valErr label: s.hrDeg = 0, the mock result, all '*'s
ValErr(s, err) ==
    LET mock == CallMethod([s EXCEPT !.hrDeg = FloatZero])
    IN  [out |-> Repeat("*", StarWidth(s, mock)), err |-> err, kind |-> "valerr"]

\* the default case of the verb switch
BadVerb(verb) == verb \notin ValidVerbs

\* the diagnostic without the verb
BadVerbTextNoVerb(verb) == <<"%", "!", "(", "B", "A", "D", "V", "E", "R", "B", ")">>

BadVerbText(verb) == <<"%", "!", verb, "(", "B", "A", "D", "V", "E", "R", "B", ")">>

\* a limit one too high
BadPrecLate(prec) == prec > MaxPrecision + 1

\* if s.prec > 15
BadPrec(prec) == prec > MaxPrecision

BadPrecText(prec) ==
    <<"%", "!", "(", "B", "A", "D", "P", "R", "E", "C", " ">> \o Itoa(BOf(prec)) \o <<")">>

\* the Inf test without the sign
NonFiniteErrUnsigned(hrDeg) ==
    IF hrDeg.k = "nan" THEN ErrNaN
    ELSE IF hrDeg.k = "inf" THEN ErrPosInf
    ELSE nil

\* the NaN and Inf tests on s.hrDeg: the error, or nil for a finite value
NonFiniteErr(hrDeg) ==
    IF hrDeg.k = "nan" THEN ErrNaN
    ELSE IF hrDeg.k = "inf" /\ ~hrDeg.neg THEN ErrPosInf
    ELSE IF hrDeg.k = "inf" THEN ErrNegInf
    ELSE nil

\* writeFormatted with the precision validated before the verb
writeFormattedPrecFirst(s0) ==
    LET sym   == SymbolsAt(IF s0.sym = nil THEN Default ELSE s0.sym)
        units == IF s0.caller = fsAngle THEN sym.DMSUnits ELSE sym.HMSUnits
        prec  == IF s0.precision.ok THEN s0.precision.n ELSE 0
        s     == [s0 EXCEPT !.sym = sym, !.units = units, !.prec = prec]
        Written(st, res) ==
            IF res.err = nil
            THEN [out |-> res.r, err |-> nil, kind |-> "rendered"]
            ELSE ValErr(st, res.err)
    IN  IF BadPrec(prec)
        THEN [out |-> BadPrecText(prec), err |-> nil, kind |-> "badprec"]
        ELSE IF BadVerb(s.verb)
        THEN [out |-> BadVerbText(s.verb), err |-> nil, kind |-> "badverb"]
        ELSE IF NonFiniteErr(s.hrDeg) # nil THEN ValErr(s, NonFiniteErr(s.hrDeg))
        ELSE Written(s, CallMethod(s))

\* state.writeFormatted: what is written, the error returned, and the path
\* taken ("badverb", "badprec", "rendered", "valerr")
writeFormatted(s0) ==
    LET sym   == SymbolsAt(IF s0.sym = nil THEN Default ELSE s0.sym)
        units == IF s0.caller = fsAngle THEN sym.DMSUnits ELSE sym.HMSUnits
        prec  == IF s0.precision.ok THEN s0.precision.n ELSE 0
        s     == [s0 EXCEPT !.sym = sym, !.units = units, !.prec = prec]
        Written(st, res) ==
            IF res.err = nil
            THEN [out |-> res.r, err |-> nil, kind |-> "rendered"]
            ELSE ValErr(st, res.err)
    IN  IF BadVerb(s.verb)
        THEN [out |-> BadVerbText(s.verb), err |-> nil, kind |-> "badverb"]
        ELSE IF BadPrec(prec)
        THEN [out |-> BadPrecText(prec), err |-> nil, kind |-> "badprec"]
        ELSE IF NonFiniteErr(s.hrDeg) # nil THEN ValErr(s, NonFiniteErr(s.hrDeg))
        ELSE Written(s, CallMethod(s))

(***************************************************************************)
(* The formattable wrapper types Angle, HourAngle, RA and Time.            *)
(***************************************************************************)
VARIABLES
    caller,   \* which of the four wrapper types the value is
    value,    \* the embedded unit value, as Deg() or Hour() hands it over
    Sym,      \* the wrapper's Sym field: nil or a *Symbols
    Err,      \* the wrapper's Err field
    dir,      \* the format directive of the call: verb, flags, width, precision
    fma,      \* whether the build fuses x*y + z
    out,      \* what the last Format call wrote to its fmt.State
    kind,     \* the path the last Format call took, "none" before any call
    seen,     \* the text and the Err the caller saw after each Format call
    uSym,     \* the *Symbols receiver of the unit functions
    uUnit,    \* the unit argument of the unit functions
    uD,       \* the formatted number the unit functions start from
    uArg,     \* the d argument of the last unit function call
    uText,    \* the string the last unit function call returned
    uOk,      \* the ok result of the last StripUnit call
    uOps      \* the unit functions called so far, in order

fmtVars == <<caller, value, Sym, Err, dir, fma, out, kind, seen>>
unitVars == <<uSym, uUnit, uD, uArg, uText, uOk, uOps>>
vars == <<fmtVars, unitVars>>

\* 0
V_0 == [k |-> "fin", neg |-> FALSE, m |-> <<>>, e |-> 0]
\* 0d 1m 2s (Example_flags), 0x1.1a2b3c4d5e6f8p-6
V_0_1_2 == [k |-> "fin", neg |-> FALSE, m |-> <<9935, 4865, 4959, 620>>, e |-> -55]
\* -1d 23m 45.6s, -0x1.65604189374bcp+0
V_m1_23_45_6 == [k |-> "fin", neg |-> TRUE, m |-> <<2303, 6995, 7562, 1571>>, e |-> -50]
\* 135 (Example_withOverflow, Example_withLossOfPrecision)
V_135 == [k |-> "fin", neg |-> FALSE, m |-> <<135>>, e |-> 0]
\* 0d 0m 59.96s, 0x1.10e2769a19c26p-6
V_0_0_59_96 == [k |-> "fin", neg |-> FALSE, m |-> <<6755, 2139, 3185, 2400>>, e |-> -57]
\* -.089876 (TestLeadingZero), -0x1.7021d10b1feebp-4
V_m0_089876 == [k |-> "fin", neg |-> TRUE, m |-> <<2811, 2175, 2483, 6476>>, e |-> -56]
\* 23.9999999, 0x1.7fffffe5280d6p+4
V_23_99 == [k |-> "fin", neg |-> FALSE, m |-> <<4123, 645, 6997, 3377>>, e |-> -47]
\* -1e-7, -0x1.ad7f29abcaf48p-24
V_m1em7 == [k |-> "fin", neg |-> TRUE, m |-> <<3929, 9657, 4732, 944>>, e |-> -73]
\* 2^52
V_2p52 == [k |-> "fin", neg |-> FALSE, m |-> <<496, 2737, 5996, 4503>>, e |-> 0]
\* 9 (TestCoverage)
V_9 == [k |-> "fin", neg |-> FALSE, m |-> <<9>>, e |-> 0]
\* 12d 34m 45.6s (Example_verbs), 0x1.9289e60f04c75p+3
V_12_34_45_6 == [k |-> "fin", neg |-> FALSE, m |-> <<1157, 1407, 5351, 7081>>, e |-> -49]

NaN == [k |-> "nan", neg |-> FALSE, m |-> <<>>, e |-> 0]
Inf(neg) == [k |-> "inf", neg |-> neg, m |-> <<>>, e |-> 0]

FiniteTable ==
    <<V_0, V_0_1_2, V_m1_23_45_6, V_135, V_0_0_59_96, V_m0_089876, V_23_99,
      V_m1em7, V_2p52, V_9, V_12_34_45_6>>

\* the finite values of the model are the first NumValues of FiniteTable
NumValues == 9
\* widths 0..MaxWid
MaxWid == 2
\* precisions 0..MaxLowPrec, and MaxPrecision + 1
MaxLowPrec == 1

FiniteValues == {FiniteTable[i] : i \in 1..NumValues}

Values == FiniteValues \cup {NaN, Inf(FALSE), Inf(TRUE)}

\* unit.PMod(x, 24): math.Mod(x, 24), plus 24 when that is negative
PMod24(x) ==
    IF x.k # "fin" THEN NaN
    ELSE LET k == -x.e
             \* r is math.Mod(x, 24), w is r + 24 for a negative r
             Positive(r, w) ==
                 IF x.neg /\ r.m # <<>>
                 THEN [k |-> "fin", neg |-> FALSE, m |-> w.m, e |-> w.e]
                 ELSE [k |-> "fin", neg |-> x.neg, m |-> r.m,
                       e |-> IF r.m = <<>> THEN 0 ELSE r.e]
             Mod(r) ==
                 Positive(r, FRound(IF r.e >= 0 THEN BSub(<<24>>, r.m)
                                    ELSE BSub(BShl(<<24>>, -r.e), r.m),
                                    IF r.e >= 0 THEN 0 ELSE r.e))
             \* q is the integer part of |x|
             Whole(q) ==
                 Mod(IF x.e >= 0
                     THEN [m |-> BOf(BDivSmall(BShl(x.m, x.e), 24).r), e |-> 0]
                     ELSE [m |-> BAdd(BShl(BOf(BDivSmall(q, 24).r), k),
                                      BSub(x.m, BShl(q, k))),
                           e |-> x.e])
         IN  Whole(BShr(x.m, k, FALSE).q)

\* the hrDeg field of the state struct a Format method builds: a.Deg(),
\* ha.Hour(), unit.PMod(ra.Hour(), 24), t.Hour()
HrDegOf(c, v) == IF c = fsRA THEN PMod24(v) ELSE v

Verbs == ValidVerbs \cup {"q"}

Widths == {[ok |-> FALSE, n |-> 0]} \cup {[ok |-> TRUE, n |-> w] : w \in 0..MaxWid}

Precisions ==
    {[ok |-> FALSE, n |-> 0]}
    \cup {[ok |-> TRUE, n |-> p] : p \in (0..MaxLowPrec) \cup {MaxPrecision + 1}}

Directives ==
    [verb : Verbs, plus : BOOLEAN, space : BOOLEAN, sharp : BOOLEAN,
     zero : BOOLEAN, wid : Widths, precision : Precisions]

\* the state struct that a Format method builds
NewState(c, v, sym, d, fused) ==
    [verb |-> d.verb, hrDeg |-> HrDegOf(c, v), prec |-> 0, caller |-> c, sym |-> sym,
     units |-> NoUnits, plus |-> d.plus, space |-> d.space, sharp |-> d.sharp,
     zero |-> d.zero, wid |-> d.wid, precision |-> d.precision, fma |-> fused]

\* a wrapper no unit function has been called beside
UnitIdle ==
    /\ uSym = Default
    /\ uUnit = <<>>
    /\ uD = <<>>
    /\ uArg = <<>>
    /\ uText = <<>>
    /\ uOk = FALSE
    /\ uOps = <<>>

\* a wrapper as FmtAngle, FmtHourAngle, FmtRA or FmtTime constructs it (Err
\* nil), and the directive of the one call made on it.  The flags, the
\* low precisions and the widths are the ones where x*tenf[prec] + .5 is the
\* same fused or not; SpecSig explores both evaluations.
Init ==
    /\ caller \in {fsAngle, fsHourAngle, fsRA, fsTime}
    /\ value \in Values
    /\ Sym \in {nil, "noSep"}
    /\ Err = nil
    /\ dir \in Directives
    /\ fma = FALSE
    /\ out = <<>>
    /\ kind = "none"
    /\ seen = <<>>
    /\ UnitIdle

\* a Format method that hands its wrapper's own fields to writeFormatted:
\* the Default table stored for a nil Sym, the value zeroed at valErr
FormatOnWrapper ==
    LET Return(res) ==
            /\ Err' = res.err
            /\ out' = res.out
            /\ kind' = res.kind
            /\ seen' = Append(seen, [out |-> res.out, err |-> res.err])
            /\ value' = IF res.kind = "valerr" THEN FloatZero ELSE value
            /\ Sym' = IF res.kind \in {"valerr", "rendered"} /\ Sym = nil
                      THEN Default ELSE Sym
    IN  /\ kind = "none"
        /\ Return(writeFormatted(NewState(caller, value, Sym, dir, fma)))
        /\ UNCHANGED <<caller, dir, fma, unitVars>>

\* (*Angle).Format, (*HourAngle).Format, (*RA).Format, (*Time).Format
Format ==
    LET Return(res) ==
            /\ Err' = res.err
            /\ out' = res.out
            /\ kind' = res.kind
            /\ seen' = Append(seen, [out |-> res.out, err |-> res.err])
    IN  /\ kind = "none"
        /\ Return(writeFormatted(NewState(caller, value, Sym, dir, fma)))
        /\ UNCHANGED <<caller, value, Sym, dir, fma, unitVars>>

Next == Format

Spec == Init /\ [][Next]_vars

\* 1 degree and 360 degrees
V_1 == [k |-> "fin", neg |-> FALSE, m |-> <<1>>, e |-> 0]
V_360 == [k |-> "fin", neg |-> FALSE, m |-> <<360>>, e |-> 0]
\* 4 and 5 seconds of arc, 0x1.23456789abcdfp-10 and 0x1.6c16c16c16c17p-10
V_4as == [k |-> "fin", neg |-> FALSE, m |-> <<431, 7603, 955, 5124>>, e |-> -62]
V_5as == [k |-> "fin", neg |-> FALSE, m |-> <<8039, 7003, 1194, 6405>>, e |-> -62]
\* 0x1.f46663afc4acap+6: in units of 1e-10 seconds, 2^52 + 0.4778...
V_b10 == [k |-> "fin", neg |-> FALSE, m |-> <<5797, 8412, 5645, 4401>>, e |-> -45]
\* 4 and 6 units in the last place below V_b10: 2^52 - 1.56..., 2^52 - 2.59...
V_b10m4 == [k |-> "fin", neg |-> FALSE, m |-> <<5795, 8412, 5645, 4401>>, e |-> -45]
V_b10m6 == [k |-> "fin", neg |-> FALSE, m |-> <<2897, 9206, 7822, 2200>>, e |-> -44]
\* 3 and 5 units in the last place above V_b10: 2^52 + 2.01..., 2^52 + 3.03...
V_b10p3 == [k |-> "fin", neg |-> FALSE, m |-> <<1597, 6825, 1291, 8803>>, e |-> -46]
V_b10p5 == [k |-> "fin", neg |-> FALSE, m |-> <<1599, 6825, 1291, 8803>>, e |-> -46]
\* 0x1.47f12e9228415p-10: in units of 1e-15 seconds, 2^52 + 0.7558...
V_b15 == [k |-> "fin", neg |-> FALSE, m |-> <<5365, 3170, 2187, 5769>>, e |-> -62]
\* 0x1.999999999999ap+48: in units of 1e-1 degrees, 2^52 + 0.25
V_h1 == [k |-> "fin", neg |-> FALSE, m |-> <<6397, 189, 8797, 3602>>, e |-> -3]
\* 0x1.ca213d840baf9p+22: in units of 1e-7 minutes, 2^52 + 0.6530...
V_b7 == [k |-> "fin", neg |-> FALSE, m |-> <<7529, 6409, 5054, 8059>>, e |-> -30]
\* 0x1.774ccac3d3818p+9: in units of 1e-11 minutes, 2^52 + 0.8189...
V_m11 == [k |-> "fin", neg |-> FALSE, m |-> <<3587, 5952, 2933, 825>>, e |-> -40]

SigTable ==
    <<V_1, V_135, V_360, V_4as, V_5as, V_2p52, V_b10, V_b10m4, V_b10m6, V_b10p3,
      V_b10p5, V_b15, V_h1, V_b7, V_m11>>

\* the values of SpecSig are the first NumSigValues of SigTable
NumSigValues == 14

SigValues == {SigTable[i] : i \in 1..NumSigValues}

\* one call on an Angle under %.ps, %.pm or %.ph for every precision sig
\* accepts, compiled with or without fusing x*tenf[prec] + .5
InitSig ==
    /\ caller = fsAngle
    /\ value \in SigValues
    /\ Sym = nil
    /\ Err = nil
    /\ dir \in [verb : {"s", "m", "h"}, plus : {FALSE}, space : {FALSE}, sharp : {FALSE},
                zero : {FALSE}, wid : {[ok |-> FALSE, n |-> 0]},
                precision : {[ok |-> TRUE, n |-> p] : p \in 0..MaxPrecision}]
    /\ fma \in BOOLEAN
    /\ out = <<>>
    /\ kind = "none"
    /\ seen = <<>>
    /\ UnitIdle

SpecSig == InitSig /\ [][Next]_vars

(***************************************************************************)
(* The unit functions CombineUnit, InsertUnit and StripUnit, called one    *)
(* after the other on the string the last one returned.                    *)
(***************************************************************************)
\* strings of at most MaxLen runes
MaxLen == 3
\* at most MaxUnitCalls calls in a row
MaxUnitCalls == 2

\* a digit, the separators of Default and of AsciiSymbols, the combining
\* mark of Default, and a unit
Runes == {"1", ".", ",", "mark", "h"}

RECURSIVE StringsOf(_)
StringsOf(n) ==
    IF n = 0 THEN {<<>>}
    ELSE StringsOf(n - 1) \cup
         {Append(t, r) : t \in {x \in StringsOf(n - 1) : Len(x) = n - 1}, r \in Runes}

\* a wrapper no Format call has been made on
FmtIdle ==
    /\ caller = fsAngle
    /\ value = V_0
    /\ Sym = nil
    /\ Err = nil
    /\ dir = [verb |-> "v", plus |-> FALSE, space |-> FALSE, sharp |-> FALSE,
              zero |-> FALSE, wid |-> [ok |-> FALSE, n |-> 0],
              precision |-> [ok |-> FALSE, n |-> 0]]
    /\ fma = FALSE
    /\ out = <<>>
    /\ kind = "none"
    /\ seen = <<>>

InitUnit ==
    /\ FmtIdle
    /\ uSym \in {Default, "noSep", "ascii"}
    /\ uUnit \in {<<>>, <<"h">>, <<"h", "r">>}
    /\ uD \in StringsOf(MaxLen)
    /\ uArg = <<>>
    /\ uText = uD
    /\ uOk = FALSE
    /\ uOps = <<>>

\* sym.InsertUnit(d, unit), and the top-level InsertUnit when sym is Default
DoInsertUnit ==
    /\ Len(uOps) < MaxUnitCalls
    /\ uArg' = uText
    /\ uText' = InsertUnit(SymbolsAt(uSym), uText, uUnit)
    /\ uOps' = Append(uOps, "InsertUnit")
    /\ UNCHANGED <<fmtVars, uSym, uUnit, uD, uOk>>

\* sym.CombineUnit(d, unit)
DoCombineUnit ==
    /\ Len(uOps) < MaxUnitCalls
    /\ uArg' = uText
    /\ uText' = CombineUnit(SymbolsAt(uSym), uText, uUnit)
    /\ uOps' = Append(uOps, "CombineUnit")
    /\ UNCHANGED <<fmtVars, uSym, uUnit, uD, uOk>>

\* sym.StripUnit(d, unit)
DoStripUnit ==
    LET res == StripUnit(SymbolsAt(uSym), uText, uUnit)
    IN  /\ Len(uOps) < MaxUnitCalls
        /\ uArg' = uText
        /\ uText' = res.stripped
        /\ uOk' = res.ok
        /\ uOps' = Append(uOps, "StripUnit")
        /\ UNCHANGED <<fmtVars, uSym, uUnit, uD>>

NextUnit == DoInsertUnit \/ DoCombineUnit \/ DoStripUnit

SpecUnit == InitUnit /\ [][NextUnit]_vars

\* values that cannot be rendered under some or all fixed width directives
UnrenderedValues == {NaN, Inf(TRUE), V_135, V_2p52}

\* one call with a fixed width and a valid directive on an Angle or an RA
\* holding one of UnrenderedValues
InitWidth ==
    /\ caller \in {fsAngle, fsRA}
    /\ value \in UnrenderedValues
    /\ Sym \in {nil, "noSep"}
    /\ Err = nil
    /\ dir \in {x \in Directives : x.wid.ok /\ ~BadVerb(x.verb) /\ ~BadPrec(x.precision.n)}
    /\ fma = FALSE
    /\ out = <<>>
    /\ kind = "none"
    /\ seen = <<>>
    /\ UnitIdle

SpecWidth == InitWidth /\ [][Next]_vars

\* precisions 2..MaxFracPrec
MaxFracPrec == 3

\* values below a tenth of a degree or hour, and one above one
FracValues == {V_0, V_0_1_2, V_0_0_59_96, V_m0_089876, V_m1_23_45_6}

\* one call with two or more decimal places on an Angle or a Time
InitFrac ==
    /\ caller \in {fsAngle, fsTime}
    /\ value \in FracValues
    /\ Sym \in {nil, "noSep"}
    /\ Err = nil
    /\ dir \in [verb : ValidVerbs, plus : BOOLEAN, space : BOOLEAN, sharp : BOOLEAN,
                zero : BOOLEAN, wid : Widths,
                precision : {[ok |-> TRUE, n |-> p] : p \in 2..MaxFracPrec}]
    /\ fma = FALSE
    /\ out = <<>>
    /\ kind = "none"
    /\ seen = <<>>
    /\ UnitIdle

SpecFrac == InitFrac /\ [][Next]_vars

\* at most MaxCalls Format calls on one wrapper
MaxCalls == 4

\* a directive with no flags and no width
Plain(verb, precision) ==
    [verb |-> verb, plus |-> FALSE, space |-> FALSE, sharp |-> FALSE, zero |-> FALSE,
     wid |-> [ok |-> FALSE, n |-> 0], precision |-> precision]

\* the directive of String: fmt.Sprintf("%s", a)
StringDirective == Plain("s", [ok |-> FALSE, n |-> 0])

\* %.16s, %.10s and %.9s (Example_withLossOfPrecision), %s, %2s
\* (Example_withOverflow) and %q
CallDirectives ==
    {Plain("s", [ok |-> TRUE, n |-> MaxPrecision + 1]),
     Plain("s", [ok |-> TRUE, n |-> 10]),
     Plain("s", [ok |-> TRUE, n |-> 9]),
     StringDirective,
     [StringDirective EXCEPT !.wid = [ok |-> TRUE, n |-> 2]],
     Plain("q", [ok |-> FALSE, n |-> 0])}

\* a new wrapper of 135 or 0d 1m 2s, and the directive of the first call
InitCalls ==
    /\ caller \in {fsAngle, fsRA}
    /\ value \in {V_135, V_0_1_2}
    /\ Sym = nil
    /\ Err = nil
    /\ dir \in CallDirectives
    /\ fma = FALSE
    /\ out = <<>>
    /\ kind = "none"
    /\ seen = <<>>
    /\ UnitIdle

\* a Format method that sets Err on a value error only
FormatAgainKeepErr ==
    LET Return(res, err) ==
            /\ Err' = err
            /\ out' = res.out
            /\ kind' = res.kind
            /\ seen' = Append(seen, [out |-> res.out, err |-> err])
        Kept(res) == Return(res, IF res.err = nil THEN Err ELSE res.err)
    IN  \E d \in CallDirectives :
            /\ kind # "none"
            /\ Len(seen) < MaxCalls
            /\ dir' = d
            /\ Kept(writeFormatted(NewState(caller, value, Sym, d, fma)))
            /\ UNCHANGED <<caller, value, Sym, fma, unitVars>>

\* a later Format call on the same wrapper, under any directive: the Format
\* method assigns the result of writeFormatted to the Err field
FormatAgain ==
    LET Return(res) ==
            /\ Err' = res.err
            /\ out' = res.out
            /\ kind' = res.kind
            /\ seen' = Append(seen, [out |-> res.out, err |-> res.err])
    IN  \E d \in CallDirectives :
            /\ kind # "none"
            /\ Len(seen) < MaxCalls
            /\ dir' = d
            /\ Return(writeFormatted(NewState(caller, value, Sym, d, fma)))
            /\ UNCHANGED <<caller, value, Sym, fma, unitVars>>

\* (*Angle).String, (*RA).String on a wrapper that was formatted before
String ==
    LET Return(res) ==
            /\ Err' = res.err
            /\ out' = res.out
            /\ kind' = res.kind
            /\ seen' = Append(seen, [out |-> res.out, err |-> res.err])
    IN  /\ kind # "none"
        /\ Len(seen) < MaxCalls
        /\ dir' = StringDirective
        /\ Return(writeFormatted(NewState(caller, value, Sym, StringDirective, fma)))
        /\ UNCHANGED <<caller, value, Sym, fma, unitVars>>

NextCalls == Format \/ FormatAgain \/ String

SpecCalls == InitCalls /\ [][NextCalls]_vars

(***************************************************************************)
(* Properties of one Format call.                                          *)
(***************************************************************************)
Called == kind # "none"

IsDigit(r) == r \in {"0", "1", "2", "3", "4", "5", "6", "7", "8", "9"}
HasDigit(t) == \E i \in 1..Len(t) : IsDigit(t[i])
AllStars(t) == Len(t) > 0 /\ \A i \in 1..Len(t) : t[i] = "*"
IsDiagnostic(t) == Len(t) >= 2 /\ t[1] = "%" /\ t[2] = "!"
IsRendering(t) == HasDigit(t) /\ ~IsDiagnostic(t) /\ \A i \in 1..Len(t) : t[i] # "*"

ValueErrors ==
    {ErrLossOfPrecision, ErrDegreeOverflow, ErrHourOverflow, ErrPosInf, ErrNegInf, ErrNaN}

PrecOf(d) == IF d.precision.ok THEN d.precision.n ELSE 0
VerbOk(d) == d.verb \in {"v", "s", "c", "d", "m", "n", "o", "h", "i", "j"}
DirectiveOk(d) == VerbOk(d) /\ PrecOf(d) <= 15

\* the outcomes the output and the error show
Outcomes ==
    {o \in {"diagnostic", "rendering", "asterisks"} :
        \/ o = "diagnostic" /\ IsDiagnostic(out) /\ Err = nil
        \/ o = "rendering" /\ IsRendering(out) /\ Err = nil
        \/ o = "asterisks" /\ AllStars(out) /\ Err \in ValueErrors}

\* C1: every Format call ends in exactly one of three outcomes: a
\* %!-diagnostic with a nil error, a rendering with a nil error, or a run of
\* asterisks with one of the six value errors; a non-nil error never comes
\* with digits in the output.
C1_ThreeOutcomes ==
    Called => /\ Cardinality(Outcomes) = 1
              /\ Err # nil => ~HasDigit(out)

\* a value error with its asterisks, where a finite value overflowed
C1_Witness ==
    /\ Called /\ value = V_135 /\ dir.verb = "s" /\ dir.wid = [ok |-> TRUE, n |-> 2]
    /\ Err = ErrDegreeOverflow /\ AllStars(out)

\* C3, as stated: a NaN or infinite value gives ErrNaN, ErrPosInf or
\* ErrNegInf and only asterisks, whatever the verb, flags, width, precision.
C3_NonFiniteAnyDirective ==
    Called /\ value.k # "fin" =>
        /\ AllStars(out)
        /\ Err = NonFiniteErr(value)

\* C3, amended: under a directive with a recognized verb and a precision of
\* at most 15, an Angle, HourAngle or Time of +Inf, -Inf, NaN gives
\* ErrPosInf, ErrNegInf, ErrNaN and only asterisks, for all flags and widths;
\* an RA gives ErrNaN for all three, unit.PMod of an infinity being NaN.
C3_NonFiniteValidDirective ==
    Called /\ DirectiveOk(dir) /\ value.k # "fin" =>
        /\ AllStars(out)
        /\ Err = CASE caller = fsRA -> "NaN"
                   [] value.k = "nan" -> "NaN"
                   [] value.neg -> "-Inf"
                   [] OTHER -> "+Inf"

C3_Witness ==
    /\ Called /\ value = Inf(TRUE) /\ caller = fsTime /\ dir.verb = "m"
    /\ dir.wid.ok /\ dir.plus /\ Err = ErrNegInf /\ AllStars(out)

\* C4: a precision of 16 or more gives a directive error and a nil Err,
\* never asterisks, for every value, NaN and the infinities and values that
\* would overflow or lose precision included; with a recognized verb the
\* diagnostic is %!(BADPREC n).
C4_BadPrecision ==
    Called /\ dir.precision.ok /\ dir.precision.n >= 16 =>
        /\ Err = nil
        /\ IsDiagnostic(out)
        /\ VerbOk(dir) =>
             out = <<"%", "!", "(", "B", "A", "D", "P", "R", "E", "C", " ">>
                     \o Itoa(BOf(dir.precision.n)) \o <<")">>

C4_Witness ==
    /\ Called /\ value = NaN /\ dir.verb = "s" /\ dir.precision = [ok |-> TRUE, n |-> 16]
    /\ Err = nil
    /\ out = <<"%", "!", "(", "B", "A", "D", "P", "R", "E", "C", " ", "1", "6", ")">>

\* C5: a verb outside v s c d m n o h i j writes exactly %!<verb>(BADVERB)
\* and leaves Err nil, whatever the value, flags, width and precision.
C5_BadVerb ==
    Called /\ ~VerbOk(dir) =>
        /\ out = <<"%", "!", dir.verb, "(", "B", "A", "D", "V", "E", "R", "B", ")">>
        /\ Err = nil

C5_Witness ==
    /\ Called /\ dir.verb = "q" /\ value = Inf(FALSE) /\ dir.wid.ok /\ PrecOf(dir) = 16
    /\ out = <<"%", "!", "q", "(", "B", "A", "D", "V", "E", "R", "B", ")">>
    /\ Err = nil

\* the columns a text takes: its runes less the combining marks
DisplayWidth(t) ==
    LET mark == SymbolsAt(IF Sym = nil THEN Default ELSE Sym).DecCombine
    IN  Len(t) - Cardinality({i \in 1..Len(t) : t[i] = mark})

\* what the same wrapper and directive write for the value v
Rendering(v) == writeFormatted(NewState(caller, v, Sym, dir, fma))

\* C2: under a directive with a width, the asterisks of a value error are
\* as many as the display width of every successful rendering, under the
\* same verb, flags, width, precision and symbols, of a finite value.
C2_AsterisksMatchWidth ==
    Called /\ Err \in ValueErrors /\ dir.wid.ok =>
        /\ AllStars(out)
        /\ \A v \in FiniteValues :
             LET r == Rendering(v)
             IN  r.err = nil /\ IsRendering(r.out) => Len(out) = DisplayWidth(r.out)

\* 135 degrees overflows a width of 2 where 0d 1m 2s renders, in 11 columns
\* (12 runes with the combining mark), under "% 02.1c"
C2_Witness ==
    /\ Called /\ value = V_135 /\ caller = fsAngle /\ Sym = nil
    /\ dir.verb = "c" /\ dir.wid = [ok |-> TRUE, n |-> 2] /\ PrecOf(dir) = 1
    /\ Err = ErrDegreeOverflow
    /\ Len(out) = 11
    /\ Rendering(V_0_1_2).err = nil
    /\ Len(Rendering(V_0_1_2).out) = 12

\* the number of units of 10^-p (of an hour or degree, K = 1, of a minute,
\* K = 60, of a second, K = 3600) nearest to the magnitude of x, computed
\* exactly: floor(|x| * K * 10^p + 1/2)
ExactScaled(x, K, p) ==
    LET n == BMulPow10(BMulSmall(x.m, K), p)
    IN  IF x.e >= 0 THEN BShl(n, x.e)
        ELSE BShr(BAdd(n, Pow2(-x.e - 1)), -x.e, FALSE).q

\* the segments per hour or degree of the verb's convention
ScaleOf(verb) ==
    IF verb \in {"v", "s", "c", "d"} THEN 3600
    ELSE IF verb \in {"m", "n", "o"} THEN 60
    ELSE 1

\* the value of the first segment: whole degrees or hours for s c d and
\* for m n o, the integer part for h i j
FirstSegment(x, d) ==
    BDivSmall(BDivPow10(ExactScaled(x, ScaleOf(d.verb), PrecOf(d)), PrecOf(d)).q,
              ScaleOf(d.verb)).q

\* C6, as stated: under a valid directive with a width, a finite value
\* whose first segment has more digits than the width (and that does not
\* lose precision) gives ErrDegreeOverflow for an Angle and ErrHourOverflow
\* for an HourAngle, RA or Time, in all three conventions.
C6_FirstSegmentOverflow ==
    LET x == HrDegOf(caller, value)
    IN  /\ Called /\ DirectiveOk(dir) /\ dir.wid.ok
        /\ x.k = "fin" /\ Err # ErrLossOfPrecision
        /\ Len(Itoa(FirstSegment(x, dir))) > dir.wid.n
        => Err = IF caller = fsAngle THEN "Degrees overflow width"
                 ELSE "Hours overflow width"

\* 1<<52 and the integers 2 below and 2 above it
TwoTo52 == Pow2(52)
TwoTo52Less2 == BSub(Pow2(52), <<2>>)
TwoTo52Plus2 == BAdd(Pow2(52), <<2>>)

\* |x| * K * 10^p + 1/2 > 2^52, computed exactly
ExceedsTwoTo52(x, K, p) ==
    LET n == BMulPow10(BMulSmall(x.m, K), p)
    IN  IF x.e >= 0 THEN BLe(TwoTo52, BShl(n, x.e))
        ELSE BLt(Pow2(52 - x.e), BAdd(n, Pow2(-x.e - 1)))

AtMostArcSec(x, n) ==
    IF x.e >= 0 THEN BLe(BShl(BMulSmall(x.m, 3600), x.e), BOf(n))
    ELSE BLe(BMulSmall(x.m, 3600), BShl(BOf(n), -x.e))

\* C8: in the seconds convention the largest precision without
\* ErrLossOfPrecision is 12 for 1 degree, 9 for 360 degrees and 9 (not 10)
\* for 135 degrees; precision 15 succeeds only for angles of a few seconds
\* of arc (fewer than 5).
C8_SecondsPrecisionLimits ==
    Called /\ dir.verb = "s" /\ value.k = "fin" =>
        /\ value = V_1 => (Err = nil <=> PrecOf(dir) <= 12)
        /\ value = V_360 => (Err = nil <=> PrecOf(dir) <= 9)
        /\ value = V_135 => (Err = nil <=> PrecOf(dir) <= 9)
        /\ PrecOf(dir) = 15 /\ Err = nil => AtMostArcSec(value, 5)

\* 1 degree at precision 12
C8_Witness ==
    /\ Called /\ dir.verb = "s" /\ value = V_1 /\ PrecOf(dir) = 12 /\ Err = nil
    /\ out = <<"1", "deg", "0", "min", "0", ".", "0", "0", "0", "0", "0", "0", "0",
               "0", "0", "0", "0", "0", "sec">>

(***************************************************************************)
(* Properties of the unit functions.                                       *)
(***************************************************************************)
\* t occurs in d at offset i
OccursAt(d, t, i) == i + Len(t) <= Len(d) /\ SubSeq(d, i + 1, i + Len(t)) = t
Occurs(d, t) == \E i \in 0..Len(d) : OccursAt(d, t, i)

\* C9, as stated: for every d that contains the decimal separator and every
\* unit u that contains neither the separator nor the combining mark, the
\* empty unit and units that occur in d included, StripUnit(InsertUnit(d, u), u)
\* and StripUnit(CombineUnit(d, u), u) are (d, true).
C9_StripInvertsInsertCombine ==
    LET sym == SymbolsAt(uSym)
    IN  /\ uOps \in {<<"InsertUnit", "StripUnit">>, <<"CombineUnit", "StripUnit">>}
        /\ sym.DecSep # <<>> /\ Occurs(uD, sym.DecSep)
        /\ ~Occurs(uUnit, sym.DecSep) /\ ~Occurs(uUnit, <<sym.DecCombine>>)
        => uText = uD /\ uOk

\* the offset where u first occurs in d, -1 when it does not occur
FirstAt(d, u) ==
    IF Occurs(d, u)
    THEN CHOOSE i \in 0..Len(d) : OccursAt(d, u, i) /\ \A j \in 0..(i - 1) : ~OccursAt(d, u, j)
    ELSE -1

LastUnitOp == IF uOps = <<>> THEN "none" ELSE uOps[Len(uOps)]

\* d with u put in at the first occurrence of the separator, the separator
\* kept (InsertUnit) or giving way to the combining mark (CombineUnit)
UnitAtFirstSep(sym, d, u, op) ==
    LET i == FirstAt(d, sym.DecSep)
    IN  IF op = "InsertUnit"
        THEN SubSeq(d, 1, i) \o u \o SubSeq(d, i + 1, Len(d))
        ELSE SubSeq(d, 1, i) \o u \o <<sym.DecCombine>>
                \o SubSeq(d, i + Len(sym.DecSep) + 1, Len(d))

Rendered == Called /\ Err = nil /\ IsRendering(out)

\* the value the formatter works on is below zero
ValueNegative == IsNegative([hrDeg |-> HrDegOf(caller, value)])

\* how many spaces t starts with
LeadSpaces(t) ==
    CHOOSE n \in 0..Len(t) :
        /\ \A i \in 1..n : t[i] = " "
        /\ n = Len(t) \/ t[n + 1] # " "

\* where t has a '+' or a '-'
SignPlaces(t) == {i \in 1..Len(t) : t[i] \in {"+", "-"}}

\* the sign the claim gives a rendering: "-", "+", " " or none
SignWanted ==
    IF ValueNegative THEN "-"
    ELSE IF dir.plus THEN "+"
    ELSE IF dir.space \/ dir.wid.ok THEN " "
    ELSE "none"

\* t carries the sign sg: a '-' or '+' is its first rune that is not a
\* space and its only sign rune; a sign space is one space in front (with a
\* width and space padding, the padding follows it); no sign is no sign rune
\* and no space in front
CarriesSign(t, sg) ==
    LET n == LeadSpaces(t)
    IN  CASE sg \in {"-", "+"} -> n < Len(t) /\ t[n + 1] = sg /\ SignPlaces(t) = {n + 1}
          [] sg = " " -> /\ SignPlaces(t) = {}
                         /\ n >= 1
                         /\ (~dir.wid.ok \/ dir.zero) => n = 1
          [] OTHER -> SignPlaces(t) = {} /\ n = 0

\* C12: in all three conventions a successful rendering carries '-' if
\* and only if the value is negative, also when it rounds to zero at the
\* precision asked for; otherwise '+' with the '+' flag; otherwise one
\* space with the ' ' flag or a width; otherwise no sign.
C12_SignFromValueAndFlags ==
    Rendered => CarriesSign(out, SignWanted)

\* the directive d without its '+' and ' ' flags
WithoutSignFlags(d) == [d EXCEPT !.plus = FALSE, !.space = FALSE]

\* what the call would have written without the '+' and ' ' flags
OutWithoutSignFlags ==
    writeFormatted(NewState(caller, value, Sym, WithoutSignFlags(dir), fma)).out

\* C13: for an RA the flags '+' and ' ' are ignored: the output is the one
\* written without them, and a rendering has no sign rune and, without a
\* width, no space in front.
C13_RAIgnoresSignFlags ==
    Called /\ caller = fsRA =>
        /\ out = OutWithoutSignFlags
        /\ Rendered => /\ SignPlaces(out) = {}
                       /\ ~dir.wid.ok => LeadSpaces(out) = 0

\* the unit symbols of the call
UnitsOfCall ==
    LET sym == SymbolsAt(IF Sym = nil THEN Default ELSE Sym)
    IN  IF caller = fsAngle THEN sym.DMSUnits ELSE sym.HMSUnits

\* the whole seconds (s c d), minutes (m n o) or hours/degrees (h i j) of
\* the value, rounded at the precision of d
WholeUnits(x, d) == BDivPow10(ExactScaled(x, ScaleOf(d.verb), PrecOf(d)), PrecOf(d)).q

\* the value of the minutes segment of the seconds convention
MinutesSegment(x, d) == BDivSmall(BDivSmall(WholeUnits(x, d), 60).q, 60).r

IsSecVerb(d) == d.verb \in {"v", "s", "c", "d"}
IsMinVerb(d) == d.verb \in {"m", "n", "o"}

\* the segments of the rendering, seen by their unit symbols (which the
\* default symbols keep distinct)
HasFirstSeg == Occurs(out, UnitsOfCall.HrDeg)
HasMinSeg == Occurs(out, UnitsOfCall.Min)
HasSecSeg == Occurs(out, UnitsOfCall.Sec)

\* C14: without a width and without '#', the first segment is omitted
\* if and only if it is zero, the minutes segment of the seconds convention
\* if and only if the first segment was omitted and the minutes are zero;
\* the last segment is always rendered; no rendered segment is followed by
\* an omitted one; with '#' every segment of the convention is rendered.
C14_LeadingZeroSegmentsElided ==
    Rendered /\ Sym = nil =>
        LET x == HrDegOf(caller, value)
        IN  /\ IsSecVerb(dir) =>
                /\ HasSecSeg
                /\ HasFirstSeg => HasMinSeg
                /\ dir.sharp => HasFirstSeg /\ HasMinSeg
                /\ ~dir.wid.ok /\ ~dir.sharp =>
                       /\ ~HasFirstSeg <=> FirstSegment(x, dir) = <<>>
                       /\ ~HasMinSeg <=> ~HasFirstSeg /\ MinutesSegment(x, dir) = 0
            /\ IsMinVerb(dir) =>
                /\ HasMinSeg /\ ~HasSecSeg
                /\ dir.sharp => HasFirstSeg
                /\ ~dir.wid.ok /\ ~dir.sharp =>
                       (~HasFirstSeg <=> FirstSegment(x, dir) = <<>>)
            /\ ~IsSecVerb(dir) /\ ~IsMinVerb(dir) =>
                HasFirstSeg /\ ~HasMinSeg /\ ~HasSecSeg

\* 0d 1m 2s under %s: the degrees are omitted, the minutes are not
C14_Witness ==
    /\ Rendered /\ Sym = nil /\ caller = fsAngle /\ value = V_0_1_2
    /\ dir.verb = "s" /\ ~dir.sharp /\ ~dir.wid.ok /\ ~dir.plus /\ ~dir.space /\ ~dir.zero
    /\ PrecOf(dir) = 0
    /\ out = <<"1", "min", "2", "sec">>

\* C15: a width makes the format fixed width.  Every successful rendering
\* under the same wrapper type, verb, flags, width, precision and symbols
\* has as many runes as the rendering of zero (which renders whenever any
\* value does), hence as any other; and the integer part of the first
\* segment takes exactly the width: after the sign column and as many
\* columns as the width comes the unit of the first segment or, under %h
\* with a precision, the decimal separator.
C15_FixedWidth ==
    Rendered /\ dir.wid.ok =>
        LET zero == Rendering(V_0)
        IN  /\ zero.err = nil
            /\ Len(zero.out) = Len(out)
            /\ Sym = nil =>
                   IF dir.verb = "h" /\ PrecOf(dir) > 0
                   THEN FirstAt(out, <<".">>) = dir.wid.n + 1
                   ELSE FirstAt(out, UnitsOfCall.HrDeg) = dir.wid.n + 1

\* -1d 23m 45.6s under %2.1s: twelve runes, the degree sign in column 4
C15_Witness ==
    /\ Rendered /\ Sym = nil /\ caller = fsAngle /\ value = V_m1_23_45_6
    /\ dir.verb = "s" /\ dir.wid = [ok |-> TRUE, n |-> 2] /\ PrecOf(dir) = 1
    /\ ~dir.zero /\ ~dir.plus
    /\ out = <<"-", " ", "1", "deg", "2", "3", "min", "4", "5", ".", "6", "sec">>
    /\ Len(Rendering(V_0).out) = 12

CutAt(t, u) ==
    IF Occurs(t, u)
    THEN [seg |-> SubSeq(t, 1, FirstAt(t, u)),
          rest |-> SubSeq(t, FirstAt(t, u) + Len(u) + 1, Len(t)), has |-> TRUE]
    ELSE [seg |-> <<>>, rest |-> t, has |-> FALSE]

\* the texts of the rendered segments, in order, under the default symbols:
\* the segments before the last one end at their units, the last one is
\* the rest
SegmentTexts ==
    LET a == CutAt(out, UnitsOfCall.HrDeg)
        b == CutAt(a.rest, UnitsOfCall.Min)
    IN  IF IsSecVerb(dir)
        THEN (IF a.has THEN <<a.seg>> ELSE <<>>) \o (IF b.has THEN <<b.seg>> ELSE <<>>)
                \o <<b.rest>>
        ELSE IF IsMinVerb(dir)
        THEN (IF a.has THEN <<a.seg>> ELSE <<>>) \o <<a.rest>>
        ELSE <<out>>

\* the integer digits of a segment text: the digits that follow its sign
\* and padding spaces
SignOrSpace(r) == r \in {" ", "+", "-"}
SkipSign(t) ==
    CHOOSE n \in 0..Len(t) :
        /\ \A i \in 1..n : SignOrSpace(t[i])
        /\ n = Len(t) \/ ~SignOrSpace(t[n + 1])
DigitRun(t, a) ==
    CHOOSE n \in 0..(Len(t) - a) :
        /\ \A i \in 1..n : IsDigit(t[a + i])
        /\ a + n = Len(t) \/ ~IsDigit(t[a + n + 1])
IntegerDigits(t) == SubSeq(t, SkipSign(t) + 1, SkipSign(t) + DigitRun(t, SkipSign(t)))

\* no zero in front of another digit
NoLeadingZero(t) == ~(Len(t) > 1 /\ t[1] = "0")

\* C17: with the '0' flag every rendered segment after the first rendered
\* one has exactly two integer digits, and the first rendered one is
\* zero-padded only under a width, then to exactly the width; without the
\* '0' flag no segment after the first carries a leading zero.
C17_ZeroFlagPadding ==
    Rendered /\ Sym = nil =>
        LET segs == SegmentTexts
        IN  /\ \A k \in 2..Len(segs) :
                   IF dir.zero THEN Len(IntegerDigits(segs[k])) = 2
                   ELSE NoLeadingZero(IntegerDigits(segs[k]))
            /\ dir.zero =>
                   IF dir.wid.ok THEN Len(IntegerDigits(segs[1])) = dir.wid.n
                   ELSE NoLeadingZero(IntegerDigits(segs[1]))

\* 0d 1m 2s under %0s: the minutes come first and are not padded, the
\* seconds are
C17_Witness ==
    /\ Rendered /\ Sym = nil /\ caller = fsAngle /\ value = V_0_1_2
    /\ dir.verb = "s" /\ dir.zero /\ ~dir.wid.ok /\ ~dir.sharp /\ ~dir.plus /\ ~dir.space
    /\ PrecOf(dir) = 0
    /\ out = <<"1", "min", "0", "2", "sec">>

\* where t has the decimal separator of the default symbols or, under the
\* combining verbs, the mark that stands for it
SeparatorPlaces(t) == {i \in 1..Len(t) : t[i] \in {".", "mark"}}

\* the runes of t after place i start with exactly p digits
DigitsFollow(t, i, p) ==
    /\ i + p <= Len(t)
    /\ \A k \in 1..p : IsDigit(t[i + k])
    /\ i + p = Len(t) \/ ~IsDigit(t[i + p + 1])

\* C18: a successful rendering with a precision p >= 1 has the decimal
\* separator (the combining mark in its place under c, n, i) exactly once,
\* in the last segment, followed by exactly p digits; with precision 0 or
\* none there is no separator.  Stated for the default symbols, whose
\* separator is not empty.
C18_SeparatorAndDecimals ==
    Rendered /\ Sym = nil =>
        LET places == SeparatorPlaces(out)
            last   == SegmentTexts[Len(SegmentTexts)]
        IN  IF PrecOf(dir) = 0 THEN places = {}
            ELSE /\ Cardinality(places) = 1
                 /\ Cardinality(SeparatorPlaces(last)) = 1
                 /\ \A i \in places : DigitsFollow(out, i, PrecOf(dir))

(***************************************************************************)
(* Properties of a sequence of Format calls on one wrapper.                *)
(***************************************************************************)
LastSeen == seen[Len(seen)]

\* C19: after any sequence of Format or String calls on one wrapper, Err
\* tells of the last call only: it is non-nil exactly when that call wrote
\* asterisks for a value error, and it is nil after a rendering and after a
\* directive error, whatever the calls before left in it.
C19_ErrOfLastCall ==
    Called =>
        /\ LastSeen = [out |-> out, err |-> Err]
        /\ Err # nil <=> kind = "valerr" /\ AllStars(out)
        /\ IsRendering(out) => Err = nil
        /\ ~DirectiveOk(dir) => Err = nil /\ IsDiagnostic(out)

\* a value error, then a rendering with a nil Err, then a value error again,
\* then a directive error with a nil Err
C19_Witness ==
    /\ Len(seen) = 4
    /\ seen[1].err = ErrLossOfPrecision /\ AllStars(seen[1].out)
    /\ IsRendering(seen[2].out) /\ seen[2].err = nil
    /\ seen[3].err = ErrDegreeOverflow /\ AllStars(seen[3].out)
    /\ IsDiagnostic(out) /\ Err = nil /\ ~DirectiveOk(dir)

(***************************************************************************)
(* The verb 'v'.                                                           *)
(***************************************************************************)
\* the directive of the call with the verb 's' in place of its verb
AsVerbS == [dir EXCEPT !.verb = "s"]

\* C20: %v is equivalent to %s: for every value, wrapper type, flag set,
\* width, precision and symbol table, a Format call under 'v' writes the
\* text and stores the Err that the call under 's' with the same flags,
\* width and precision writes and stores.
C20_VerbVIsVerbS ==
    LET Same(res) == out = res.out /\ Err = res.err
    IN  Called /\ dir.verb = "v" =>
            Same(writeFormatted(NewState(caller, value, Sym, AsVerbS, fma)))

\* %2.1v of -1d 23m 45.6s, under any flags, rendered with its three segments
C20_Witness ==
    /\ Called /\ dir.verb = "v" /\ value = V_m1_23_45_6 /\ caller = fsAngle
    /\ dir.wid = [ok |-> TRUE, n |-> 2] /\ dir.precision = [ok |-> TRUE, n |-> 1]
    /\ Sym = nil /\ Rendered /\ HasFirstSeg /\ HasMinSeg /\ HasSecSeg
    /\ FirstAt(out, <<".">>) > 0

(***************************************************************************)
(* The scaled integer and its segments.                                    *)
(***************************************************************************)
\* the digits of t, in order
DigitsOf(t) == SelectSeq(t, IsDigit)

DigitValue(r) == CHOOSE n \in 0..9 : DigitRune[n + 1] = r

\* the natural number a run of digits reads as, 0 for no digits
RECURSIVE AtoiFrom(_, _, _)
AtoiFrom(d, i, acc) ==
    IF i > Len(d) THEN acc
    ELSE AtoiFrom(d, i + 1, BAdd(BMulSmall(acc, 10), BOf(DigitValue(d[i]))))
Atoi(d) == AtoiFrom(d, 1, <<>>)

\* the numbers read back from the rendering under the default symbols: the
\* first segment up to its unit, the minutes up to theirs, and the digits of
\* the last segment with its separator taken out; an elided segment is 0
ParsedSegments ==
    LET a == CutAt(out, UnitsOfCall.HrDeg)
        b == CutAt(a.rest, UnitsOfCall.Min)
    IN  IF IsSecVerb(dir)
        THEN [first |-> Atoi(DigitsOf(a.seg)), min |-> Atoi(DigitsOf(b.seg)),
              last |-> Atoi(DigitsOf(b.rest))]
        ELSE IF IsMinVerb(dir)
        THEN [first |-> Atoi(DigitsOf(a.seg)), min |-> <<>>,
              last |-> Atoi(DigitsOf(a.rest))]
        ELSE [first |-> <<>>, min |-> <<>>, last |-> Atoi(DigitsOf(out))]

\* first*60*60*10^p + min*60*10^p + last, first*60*10^p + last, last
Recomposed(seg, d) ==
    IF IsSecVerb(d)
    THEN BAdd(BMulPow10(BMulSmall(BAdd(BMulSmall(seg.first, 60), seg.min), 60),
                        PrecOf(d)), seg.last)
    ELSE IF IsMinVerb(d)
    THEN BAdd(BMulPow10(BMulSmall(seg.first, 60), PrecOf(d)), seg.last)
    ELSE seg.last

\* the scaled integer of a call: int64(|x|*k*10^p + .5) as the renderers
\* compute it in float64, k = 3600, 60 or 1
ScaledOfCall(x, d, fused) ==
    IF ScaleOf(d.verb) = 1 THEN sig([m |-> x.m, e |-> x.e], PrecOf(d), fused)
    ELSE sig(FMul([m |-> x.m, e |-> x.e], FOfInt(ScaleOf(d.verb))), PrecOf(d), fused)

\* C21: in all three conventions, the segments of a successful rendering,
\* read back under the directive of the call and the default symbols, give
\* the scaled integer floor(|v|*k*10^p + 1/2): first*60*60*10^p +
\* min*60*10^p + last for seconds, first*60*10^p + last for minutes, the
\* digits of the one segment for hours or degrees.
C21_SegmentsRecoverScaled ==
    Rendered /\ Sym = nil =>
        Recomposed(ParsedSegments, dir) = ScaledOfCall(HrDegOf(caller, value), dir, fma)

\* -1d 23m 45.6s under %.1c: 1, 23 and 456 give 50256
C21_Witness ==
    /\ Rendered /\ Sym = nil /\ value = V_m1_23_45_6 /\ caller = fsAngle
    /\ dir.verb = "c" /\ dir.precision = [ok |-> TRUE, n |-> 1]
    /\ ParsedSegments = [first |-> <<1>>, min |-> <<23>>, last |-> <<456>>]
    /\ Recomposed(ParsedSegments, dir) = <<256, 5>>

(***************************************************************************)
(* The hour/degree convention without a width.                             *)
(***************************************************************************)
IsHrDegVerb(d) == d.verb \in {"h", "i", "j"}

\* C22: in the hour/degree convention with no width the rendered number has
\* at least one digit to the left of the decimal separator, for every finite
\* value and every flag set: the digits start right after the sign, if any.
C22_DigitLeftOfSeparator ==
    Rendered /\ Sym = nil /\ IsHrDegVerb(dir) /\ ~dir.wid.ok =>
        Len(IntegerDigits(out)) >= 1

(***************************************************************************)
(* The order of the checks of one Format call.                             *)
(***************************************************************************)
BadVerbWord == <<"B", "A", "D", "V", "E", "R", "B">>
BadPrecWord == <<"B", "A", "D", "P", "R", "E", "C">>

\* the first segment of the value has more digits than the width allows
FirstSegmentTooWide ==
    /\ dir.wid.ok
    /\ Len(Itoa(FirstSegment(HrDegOf(caller, value), dir))) > dir.wid.n

\* the scaled integer of the value is 2^52 + 2 or more
ScaledBeyondTwoTo52 ==
    BLe(TwoTo52Plus2, ExactScaled(HrDegOf(caller, value), ScaleOf(dir.verb), PrecOf(dir)))

\* C23: the verb is validated first, then the precision, then the value is
\* classified, then it is rendered: an unrecognized verb gives only the
\* BADVERB diagnostic, also with a precision above 15; a precision above 15
\* with a valid verb gives only the BADPREC diagnostic, also for NaN and
\* the infinities; NaN and the infinities are reported whatever the
\* precision and the width make of the number; and a value that loses
\* precision gives ErrLossOfPrecision also where its first segment
\* overflows the width.
C23_ValidationOrder ==
    Called =>
        /\ ~VerbOk(dir) =>
              /\ kind = "badverb" /\ Err = nil
              /\ Occurs(out, BadVerbWord) /\ ~Occurs(out, BadPrecWord)
        /\ VerbOk(dir) /\ PrecOf(dir) > 15 =>
              /\ kind = "badprec" /\ Err = nil
              /\ Occurs(out, BadPrecWord) /\ ~Occurs(out, BadVerbWord)
        /\ DirectiveOk(dir) /\ HrDegOf(caller, value).k # "fin" =>
              /\ kind = "valerr" /\ AllStars(out)
              /\ Err = NonFiniteErr(HrDegOf(caller, value))
        /\ DirectiveOk(dir) /\ HrDegOf(caller, value).k = "fin" /\ ScaledBeyondTwoTo52 =>
              /\ kind = "valerr" /\ AllStars(out)
              /\ Err = ErrLossOfPrecision

\* 2^52 degrees under %1s: the seconds lose precision, and the degrees
\* would not fit the width
C23_Witness ==
    /\ Called /\ value = V_2p52 /\ caller = fsAngle /\ dir.verb = "s"
    /\ dir.wid = [ok |-> TRUE, n |-> 1] /\ ~dir.precision.ok
    /\ ScaledBeyondTwoTo52 /\ FirstSegmentTooWide
    /\ Err = ErrLossOfPrecision /\ AllStars(out)

\* the segments the renderers cut the scaled integer i into: sec := i % p60,
\* i /= p60, min := i % 60, hrDeg := i / 60 (seconds); last := i % p60,
\* first := i / p60 (minutes); i itself (hours or degrees)
SegmentsOf(i, d) ==
    IF IsSecVerb(d)
    THEN [first |-> BDivSmall(DivP60(i, PrecOf(d)), 60).q,
          min |-> BOf(BDivSmall(DivP60(i, PrecOf(d)), 60).r),
          last |-> ModP60(i, PrecOf(d))]
    ELSE IF IsMinVerb(d)
    THEN [first |-> DivP60(i, PrecOf(d)), min |-> <<>>, last |-> ModP60(i, PrecOf(d))]
    ELSE [first |-> <<>>, min |-> <<>>, last |-> i]

\* 60 * 10^p
P60(d) == BMulPow10(<<60>>, PrecOf(d))

\* C24: the decomposition of the scaled integer i is exact.  Seconds:
\* sec = i mod (60*10^p) is below 60*10^p, min = (i div (60*10^p)) mod 60 is
\* below 60, first = i div (3600*10^p), and first*3600*10^p + min*60*10^p +
\* sec = i.  Minutes: last = i mod (60*10^p), first = i div (60*10^p), and
\* first*60*10^p + last = i.  Hours or degrees: the one segment is i.  The
\* segments are the ones the rendering shows.
C24_DecompositionExact ==
    LET Exact(i, seg) ==
            /\ Recomposed(seg, dir) = i
            /\ ~IsHrDegVerb(dir) => BLt(seg.last, P60(dir))
            /\ BLt(seg.min, <<60>>)
            /\ IsSecVerb(dir) =>
                  seg.first = BDivSmall(BDivPow10(i, PrecOf(dir)).q, 3600).q
            /\ IsHrDegVerb(dir) => seg.last = i
            /\ Sym = nil => ParsedSegments = seg
        Cut(i) == Exact(i, SegmentsOf(i, dir))
    IN  Rendered => Cut(ScaledOfCall(HrDegOf(caller, value), dir, fma))

\* -1d 23m 45.6s is 83.76 minutes: 838 tenths under %.1m, cut into 1 and 238
C24_Witness ==
    /\ Rendered /\ Sym = nil /\ value = V_m1_23_45_6 /\ caller = fsAngle
    /\ dir.verb = "m" /\ dir.precision = [ok |-> TRUE, n |-> 1]
    /\ ScaledOfCall(value, dir, fma) = <<838>>
    /\ ParsedSegments = [first |-> <<1>>, min |-> <<>>, last |-> <<238>>]

FirstDigitAt(t) ==
    IF HasDigit(t)
    THEN CHOOSE j \in 1..Len(t) : IsDigit(t[j]) /\ \A i \in 1..(j - 1) : ~IsDigit(t[i])
    ELSE 0

\* C26: with a width, the sign indicator ('-', '+' or a space) of the
\* seconds and minutes conventions is the left-most rune of the output,
\* ahead of any padding of the first segment; in the hour/degree convention
\* without the '0' flag it stands immediately in front of the first digit of
\* the number, inside the padded field.
C26_SignPlaceUnderWidth ==
    Rendered /\ dir.wid.ok =>
        /\ IsSecVerb(dir) \/ IsMinVerb(dir) =>
              /\ SignOrSpace(out[1])
              /\ SignPlaces(out) \subseteq {1}
        /\ IsHrDegVerb(dir) /\ ~dir.zero =>
              /\ FirstDigitAt(out) > 1
              /\ SignOrSpace(out[FirstDigitAt(out) - 1])
              /\ SignPlaces(out) \subseteq {FirstDigitAt(out) - 1}
              /\ \A i \in 1..(FirstDigitAt(out) - 1) : out[i] = " " \/ i = FirstDigitAt(out) - 1

(***************************************************************************)
(* Carries between the segments.                                           *)
(***************************************************************************)
\* C27: the value is rounded once, as a whole, before it is cut into
\* segments, so a carry runs through them: in every successful rendering the
\* minutes of the seconds convention are 0..59 and the integer part of the
\* last segment (seconds, or minutes in the minutes convention) is 0..59; a
\* 60 is never shown.
C27_NoSixty ==
    Rendered /\ Sym = nil /\ (IsSecVerb(dir) \/ IsMinVerb(dir)) =>
        /\ BLt(ParsedSegments.min, <<60>>)
        /\ BLt(BDivPow10(ParsedSegments.last, PrecOf(dir)).q, <<60>>)

\* 0d 0m 59.96s under %.1s: 1 minute 0.0 seconds
C27_Witness ==
    /\ Rendered /\ Sym = nil /\ value = V_0_0_59_96 /\ caller = fsAngle
    /\ dir.verb = "s" /\ dir.precision = [ok |-> TRUE, n |-> 1]
    /\ ~dir.wid.ok /\ ~dir.zero /\ ~dir.plus /\ ~dir.space /\ ~dir.sharp
    /\ out = <<"1", "min", "0", ".", "0", "sec">>

(***************************************************************************)
(* Right ascension.                                                        *)
(***************************************************************************)
\* C28: formatting an RA never renders a minus sign and never renders 24
\* hours or more, for every stored value (those out of range or negative
\* are wrapped) and every precision: the hours segment of the seconds and
\* minutes conventions is below 24, and so is the integer part of the hour
\* convention.
C28_RABelow24 ==
    Rendered /\ Sym = nil /\ caller = fsRA =>
        /\ \A i \in 1..Len(out) : out[i] # "-"
        /\ IsSecVerb(dir) \/ IsMinVerb(dir) => BLt(ParsedSegments.first, <<24>>)
        /\ IsHrDegVerb(dir) => BLt(BDivPow10(ParsedSegments.last, PrecOf(dir)).q, <<24>>)

(***************************************************************************)
(* The three placements of the last unit symbol.                           *)
(***************************************************************************)
\* the verb of the same convention that appends the unit
AppendVerbOf(verb) ==
    IF verb \in {"v", "s", "c", "d"} THEN "s"
    ELSE IF verb \in {"m", "n", "o"} THEN "m"
    ELSE "h"

\* the unit symbol of the last segment of the call
LastUnitOfCall ==
    IF IsSecVerb(dir) THEN UnitsOfCall.Sec
    ELSE IF IsMinVerb(dir) THEN UnitsOfCall.Min
    ELSE UnitsOfCall.HrDeg

\* t without the last unit symbol, the decimal separator and the combining
\* mark of the default symbols
Bare(t) ==
    LET Kept(r) == <<r>> # LastUnitOfCall /\ r # "." /\ r # "mark"
    IN  SelectSeq(t, Kept)

\* C29: within one convention the verbs that combine (c n i) and insert
\* (d o j) the unit give the Err of the verb that appends it (s m h) and the
\* same signs, digits and leading segments; only the place of the last unit
\* symbol differs: after the number, in place of the separator with the
\* combining mark, or just before the separator.  At precision 0, and with
\* an empty DecSep, the outputs are the same text.
C29_UnitPlacementOnly ==
    LET Same(res) ==
            /\ Err = res.err
            /\ kind = res.kind
            /\ PrecOf(dir) = 0 \/ Sym # nil => out = res.out
            /\ Rendered /\ Sym = nil =>
                  /\ Bare(out) = Bare(res.out)
                  /\ Len(out) = Len(res.out)
                  /\ PrecOf(dir) > 0 =>
                        /\ FirstAt(res.out, LastUnitOfCall) = Len(res.out) - 1
                        /\ dir.verb \in {"c", "n", "i"} =>
                              /\ Occurs(out, LastUnitOfCall \o <<"mark">>)
                              /\ ~Occurs(out, <<".">>)
                              /\ FirstAt(out, LastUnitOfCall) = FirstAt(res.out, <<".">>)
                        /\ dir.verb \in {"d", "o", "j"} =>
                              /\ Occurs(out, LastUnitOfCall \o <<".">>)
                              /\ FirstAt(out, LastUnitOfCall) = FirstAt(res.out, <<".">>)
    IN  Called /\ DirectiveOk(dir) /\ dir.verb \in {"c", "n", "i", "d", "o", "j"} =>
            Same(writeFormatted(NewState(caller, value, Sym,
                                         [dir EXCEPT !.verb = AppendVerbOf(dir.verb)], fma)))

\* -1d 23m 45.6s under %.1d: the unit just before the separator
C29_Witness ==
    /\ Rendered /\ Sym = nil /\ value = V_m1_23_45_6 /\ caller = fsAngle
    /\ dir.verb = "d" /\ dir.precision = [ok |-> TRUE, n |-> 1]
    /\ ~dir.wid.ok /\ ~dir.zero /\ ~dir.plus /\ ~dir.space /\ ~dir.sharp
    /\ out = <<"-", "1", "deg", "2", "3", "min", "4", "5", "sec", ".", "6">>

(***************************************************************************)
(* The mock result that gives the asterisks their width.                   *)
(***************************************************************************)
\* the mock result of valErr: the formatting method of the call run on the
\* state of the call with s.hrDeg = 0
MockOfCall ==
    CallMethod([NewState(caller, value, Sym, dir, fma) EXCEPT
                    !.sym = SymbolsAt(IF Sym = nil THEN Default ELSE Sym),
                    !.units = UnitsOfCall,
                    !.prec = PrecOf(dir),
                    !.hrDeg = FloatZero])

\* C30: the mock rendering of zero succeeds under every valid directive
\* with no width or a width of 1 or more, and the asterisks then have its
\* width (less the combining mark); it fails only under a width of 0, and
\* only then the default of 10 asterisks is written.
C30_MockFailsOnlyAtWidthZero ==
    LET Sized(mock) ==
            /\ ~dir.wid.ok \/ dir.wid.n >= 1 =>
                  /\ mock.err = nil
                  /\ Len(out) = Len(mock.r) - (IF Occurs(mock.r, <<"mark">>) THEN 1 ELSE 0)
            /\ mock.err # nil =>
                  /\ dir.wid = [ok |-> TRUE, n |-> 0]
                  /\ out = Repeat("*", DefaultWidth)
    IN  Called /\ kind = "valerr" => AllStars(out) /\ Sized(MockOfCall)

\* 135 degrees under %0s: zero does not fit either, and 10 asterisks are
\* written
C30_Witness ==
    /\ Called /\ kind = "valerr" /\ value = V_135 /\ caller = fsAngle
    /\ dir.verb = "s" /\ dir.wid = [ok |-> TRUE, n |-> 0]
    /\ MockOfCall.err = ErrDegreeOverflow
    /\ Err = ErrDegreeOverflow /\ out = Repeat("*", DefaultWidth)
====
